---- MODULE Spec2Model ----
(***************************************************************************)
(* Model of src/extract_linkedin_cookies.py: discovery of browser cookie   *)
(* stores, probing and ranking, schema-adaptive extraction, normalisation, *)
(* deduplication, the authentication verdict and persistence.              *)
(*                                                                         *)
(* Text is modelled as a sequence of one-character strings, so that        *)
(* startswith, `in` and SQL LIKE are computed character by character.      *)
(* A cookie value is [t |-> "str" | "bytes", v |-> sequence of code        *)
(* points / byte values].  SQL NULL is <<>> and a non-NULL cell x is <<x>>.*)
(* Host cells are text, as both schemas declare them.                      *)
(***************************************************************************)
EXTENDS Integers, Sequences, FiniteSets, TLC

\* ------------------------------------------------------------------ bounds
\* Longest candidate list one locator enumerates.
MaxStores == 2
\* Most rows one store holds.
MaxRows == 2

\* ------------------------------------------------------------- text helpers
Null == <<>>

Some(x) == <<x>>

StartsWith(s, p) ==
    /\ Len(s) >= Len(p)
    /\ SubSeq(s, 1, Len(p)) = p

EndsWith(s, p) ==
    /\ Len(s) >= Len(p)
    /\ SubSeq(s, Len(s) - Len(p) + 1, Len(s)) = p

HasChar(s, c) == \E i \in 1..Len(s) : s[i] = c

\* Python's `needle in haystack` on str.
Contains(s, p) ==
    \E i \in 1..(Len(s) - Len(p) + 1) : SubSeq(s, i, i + Len(p) - 1) = p

\* ------------------------------------------------------------ host literals
LinkedInCom == <<"l", "i", "n", "k", "e", "d", "i", "n", ".", "c", "o", "m">>

DotLinkedInCom == <<".">> \o LinkedInCom

WwwLinkedInCom == <<"w", "w", "w", ".">> \o LinkedInCom

NotLinkedInCom == <<"n", "o", "t">> \o LinkedInCom

\* ------------------------------------------------------- program constants
LINKEDIN_AUTH_COOKIES == <<"li_at", "JSESSIONID", "bcookie", "bscookie", "lang", "li_rm">>

\* The list the verdict of extract_linkedin_cookies uses.
auth_cookie_names == <<"li_at", "JSESSIONID", "bcookie", "bscookie">>

Families == {"firefox", "chrome", "edge"}

\* ------------------------------------------------------------ normalisation
\* A variant that prefixes a dot whenever the host contains one.
FirefoxDomainAlwaysPrefixed(host) == IF HasChar(host, ".") THEN <<".">> \o host ELSE host

\* 'domain' of the Firefox extractor:
\*   row[2] if row[2].startswith('.') else f".{row[2]}"
\*          if not row[2].startswith('.') and '.' in row[2] else row[2]
FirefoxDomain(host) ==
    IF StartsWith(host, <<".">>) THEN host
    ELSE IF ~StartsWith(host, <<".">>) /\ HasChar(host, ".") THEN <<".">> \o host
    ELSE host

\* A variant that prefixes a dot to every host without a leading one.
ChromeDomainBareHostPrefixed(host_key) ==
    IF StartsWith(host_key, <<".">>) THEN host_key ELSE <<".">> \o host_key

\* 'domain' of the Chrome/Edge extractor:
\*   host_key if host_key.startswith('.') else f".{host_key}" if '.' in host_key else host_key
ChromeDomain(host_key) ==
    IF StartsWith(host_key, <<".">>) THEN host_key
    ELSE IF HasChar(host_key, ".") THEN <<".">> \o host_key
    ELSE host_key

\* A variant without the `or '/'` default.
PathOfNoDefault(cell) == IF cell = Null THEN "" ELSE cell[1]

\* row[3] or '/'
PathOf(cell) == IF cell = Null \/ cell = Some("") THEN "/" ELSE cell[1]

\* row[4] if row[4] else None
ExpiryOf(cell) == IF cell = Null \/ cell = Some(0) THEN Null ELSE cell

\* A variant reading `row[5] or True`.
SecureOfOrTrue(cell) == TRUE

\* bool(row[5]) if row[5] is not None else True
SecureOf(cell) == IF cell # Null THEN cell[1] # 0 ELSE TRUE

\* bool(row[6]) if row[6] is not None else False
HttpOnlyOf(cell) == IF cell # Null THEN cell[1] # 0 ELSE FALSE

\* bytes.decode('utf-8') on the single-byte range: a byte below 128 is the
\* code point of the same number, a byte from 128 up (with no multi-byte
\* structure around it) raises UnicodeDecodeError.
Utf8Decodable(bytes) == \A i \in 1..Len(bytes) : bytes[i] < 128

Utf8Decode(bytes) == [t |-> "str", v |-> bytes]

FirefoxCookie(row) ==
    [name |-> row.name,
     value |-> row.value,
     domain |-> FirefoxDomain(row.host),
     path |-> PathOf(row.path),
     expiry |-> ExpiryOf(row.expiry),
     secure |-> SecureOf(row.isSecure),
     httpOnly |-> HttpOnlyOf(row.isHttpOnly)]

ChromeCookie(row) ==
    [name |-> row.name,
     value |-> IF row.value.t = "bytes" THEN Utf8Decode(row.value.v) ELSE row.value,
     domain |-> ChromeDomain(row.host),
     path |-> PathOf(row.path),
     expiry |-> ExpiryOf(row.expiry),
     secure |-> SecureOf(row.isSecure),
     httpOnly |-> HttpOnlyOf(row.isHttpOnly)]

\* The `continue` of the row loop: a bytes value that does not decode.
ChromeRowSkipped(row) == row.value.t = "bytes" /\ ~Utf8Decodable(row.value.v)

RECURSIVE FirefoxCookies(_, _)
\* The row loop of extract_cookies_from_firefox.
FirefoxCookies(rows, i) ==
    IF i > Len(rows) THEN <<>>
    ELSE <<FirefoxCookie(rows[i])>> \o FirefoxCookies(rows, i + 1)

RECURSIVE ChromeCookies(_, _)
\* The row loop of extract_cookies_from_chrome_edge.
ChromeCookies(rows, i) ==
    IF i > Len(rows) THEN <<>>
    ELSE (IF ChromeRowSkipped(rows[i]) THEN <<>> ELSE <<ChromeCookie(rows[i])>>)
             \o ChromeCookies(rows, i + 1)

\* ------------------------------------------------------------ cookie stores
\* A store is [kind, rows, profile]:
\*   kind "moz_base"   moz_cookies with the baseDomain column
\*        "moz_host"   moz_cookies without it (host column only)
\*        "cookies"    the Chrome/Edge cookies table
\*        "other"      a database without the table or columns a query names
\*        "corrupt"    opens, but every statement raises DatabaseError
\*        "unopenable" connect() raises OperationalError
\*   profile "default" | "named" | "numbered" (Chrome/Edge directory name),
\*        "ff" for a Firefox profile directory.
StoreKinds == {"moz_base", "moz_host", "cookies", "other", "corrupt", "unopenable"}

\* The registrable domain Firefox keeps in baseDomain for a host.
BaseDomainOf(host) ==
    IF host = LinkedInCom \/ EndsWith(host, DotLinkedInCom) THEN LinkedInCom
    ELSE IF StartsWith(host, <<".">>) THEN Tail(host)
    ELSE host

\* The statements of the program, by name and in source order.
FirefoxQueries == <<"ff_baseDomain", "ff_hostList", "ff_hostLike">>

ChromeQueries == <<"ch_like", "ch_dotLike", "ch_www">>

\* The WHERE clause of each statement (LIKE '%x' is a suffix match).
Matches(q, row) ==
    CASE q \in {"ff_baseDomain", "probe_baseDomain"} ->
            BaseDomainOf(row.host) \in {LinkedInCom, DotLinkedInCom}
      [] q = "ff_hostList" ->
            \/ row.host \in {LinkedInCom, DotLinkedInCom, WwwLinkedInCom}
            \/ EndsWith(row.host, DotLinkedInCom)
      [] q \in {"ff_hostLike", "probe_hostLike", "ch_like", "probe_chLike"} ->
            EndsWith(row.host, LinkedInCom)
      [] q = "ch_dotLike" -> EndsWith(row.host, DotLinkedInCom)
      [] q = "ch_www" -> row.host = WwwLinkedInCom

\* The table and columns a statement names exist in the store.
SchemaHas(kind, q) ==
    CASE q \in {"ff_baseDomain", "probe_baseDomain"} -> kind = "moz_base"
      [] q \in {"ff_hostList", "ff_hostLike", "probe_hostLike"} ->
            kind \in {"moz_base", "moz_host"}
      [] q \in {"ch_like", "ch_dotLike", "ch_www", "probe_chLike"} -> kind = "cookies"

RECURSIVE SelectRows(_, _, _)
\* The rows a statement returns, in table order.
SelectRows(rows, q, i) ==
    IF i > Len(rows) THEN <<>>
    ELSE (IF Matches(q, rows[i]) THEN <<rows[i]>> ELSE <<>>) \o SelectRows(rows, q, i + 1)

\* conn.execute(q).fetchall(): the rows, or the exception raised.
Execute(store, q) ==
    IF store.kind = "corrupt" THEN [st |-> "DatabaseError", rows |-> <<>>]
    ELSE IF ~SchemaHas(store.kind, q) THEN [st |-> "OperationalError", rows |-> <<>>]
    ELSE [st |-> "ok", rows |-> SelectRows(store.rows, q, 1)]

\* connect(f"file:{cookiefile}?immutable=1", uri=True) succeeds.
ConnectOk(store) == store.kind # "unopenable"

\* A variant in which the third Firefox statement is a DELETE.
StatementVerbWithDelete(q) == IF q = "ff_hostLike" THEN "DELETE" ELSE "SELECT"

\* The SQL verb of each statement: all of them are SELECTs.
StatementVerb(q) == "SELECT"

\* The store after statement q ran on it: a SELECT leaves it as it was, any
\* other statement would rewrite the table.
Apply(store, q) ==
    IF StatementVerb(q) = "SELECT" \/ store.kind \in {"corrupt", "unopenable"} THEN store
    ELSE [store EXCEPT !.rows = <<>>]

RECURSIVE ApplyAll(_, _, _)
\* The store after the statements ran[i..] ran on it.
ApplyAll(store, ran, i) ==
    IF i > Len(ran) THEN store
    ELSE ApplyAll(Apply(store, ran[i]), ran, i + 1)

\* -------------------------------------------------------------- extractors
\* The outcome of one call: ret is the returned value (some = FALSE is None),
\* ran the statements executed in order, warned whether a warning was
\* printed, raised whether an exception left the call (the outer
\* `except Exception` lets none), opened / closed whether connect()
\* succeeded and conn.close() ran.
None == [some |-> FALSE, cookies |-> <<>>]

List(cookies) == [some |-> TRUE, cookies |-> cookies]

\* `return cookies` after conn.close(), or `return None` after the loop.
Returned(ret, ran) ==
    [ret |-> ret, ran |-> ran, warned |-> FALSE, raised |-> FALSE,
     opened |-> TRUE, closed |-> TRUE]

\* The outer handler: the warning is printed and None returned.
Warned(ran, opened) ==
    [ret |-> None, ran |-> ran, warned |-> TRUE, raised |-> FALSE,
     opened |-> opened, closed |-> FALSE]

RECURSIVE FirefoxQueryLoopNoFallback(_, _, _)
\* A variant without the inner `except OperationalError: continue`.
FirefoxQueryLoopNoFallback(store, i, ran) ==
    IF i > Len(FirefoxQueries) THEN Returned(None, ran)
    ELSE IF Execute(store, FirefoxQueries[i]).st # "ok"
         THEN Warned(Append(ran, FirefoxQueries[i]), TRUE)
         ELSE IF Execute(store, FirefoxQueries[i]).rows # <<>>
              THEN Returned(List(FirefoxCookies(Execute(store, FirefoxQueries[i]).rows, 1)),
                            Append(ran, FirefoxQueries[i]))
              ELSE FirefoxQueryLoopNoFallback(store, i + 1, Append(ran, FirefoxQueries[i]))

RECURSIVE FirefoxQueryLoop(_, _, _)
\* `for query in queries` of extract_cookies_from_firefox, from query i on.
FirefoxQueryLoop(store, i, ran) ==
    IF i > Len(FirefoxQueries) THEN Returned(None, ran)
    ELSE LET q == FirefoxQueries[i]
             r == Execute(store, q)
         IN  CASE r.st = "OperationalError" -> FirefoxQueryLoop(store, i + 1, Append(ran, q))
               [] r.st = "DatabaseError" -> Warned(Append(ran, q), TRUE)
               [] r.st = "ok" /\ r.rows # <<>> ->
                    Returned(List(FirefoxCookies(r.rows, 1)), Append(ran, q))
               [] OTHER -> FirefoxQueryLoop(store, i + 1, Append(ran, q))

\* A variant without the outer `except Exception`.
extract_cookies_from_firefox_unguarded(store) ==
    IF ~ConnectOk(store) \/ store.kind = "corrupt"
    THEN [ret |-> None, ran |-> <<>>, warned |-> FALSE, raised |-> TRUE,
          opened |-> ConnectOk(store), closed |-> FALSE]
    ELSE FirefoxQueryLoop(store, 1, <<>>)

extract_cookies_from_firefox(store) ==
    IF ~ConnectOk(store) THEN Warned(<<>>, FALSE)
    ELSE FirefoxQueryLoop(store, 1, <<>>)

RECURSIVE ChromeQueryLoopUntilCookies(_, _, _)
\* A variant testing `if cookies:` after the row loop instead of `if rows:`.
ChromeQueryLoopUntilCookies(store, i, ran) ==
    IF i > Len(ChromeQueries) THEN Returned(None, ran)
    ELSE IF Execute(store, ChromeQueries[i]).st = "ok"
              /\ ChromeCookies(Execute(store, ChromeQueries[i]).rows, 1) # <<>>
         THEN Returned(List(ChromeCookies(Execute(store, ChromeQueries[i]).rows, 1)),
                       Append(ran, ChromeQueries[i]))
         ELSE ChromeQueryLoopUntilCookies(store, i + 1, Append(ran, ChromeQueries[i]))

RECURSIVE ChromeQueryLoop(_, _, _)
\* `for query in queries` of extract_cookies_from_chrome_edge, from query i on.
ChromeQueryLoop(store, i, ran) ==
    IF i > Len(ChromeQueries) THEN Returned(None, ran)
    ELSE LET q == ChromeQueries[i]
             r == Execute(store, q)
         IN  CASE r.st = "OperationalError" -> ChromeQueryLoop(store, i + 1, Append(ran, q))
               [] r.st = "DatabaseError" -> ChromeQueryLoop(store, i + 1, Append(ran, q))
               [] r.st = "ok" /\ r.rows # <<>> ->
                    Returned(List(ChromeCookies(r.rows, 1)), Append(ran, q))
               [] OTHER -> ChromeQueryLoop(store, i + 1, Append(ran, q))

extract_cookies_from_chrome_edge(store) ==
    IF ~ConnectOk(store) THEN Warned(<<>>, FALSE)
    ELSE ChromeQueryLoop(store, 1, <<>>)

\* ------------------------------------------------------------------ prober
\* The outcome of one has_linkedin_cookies call: ret is the returned value;
\* nothing is printed and `except Exception: pass` lets no exception out.
Probed(ret, ran, opened, closed) ==
    [ret |-> ret, ran |-> ran, warned |-> FALSE, raised |-> FALSE,
     opened |-> opened, closed |-> closed]

\* One COUNT(*) statement of the prober, after the statements `ran`:
\* `return True` on a positive count (before conn.close()); on a zero count
\* conn.close() and `return False`; an exception raised by the statement is
\* caught by the outer handler, which returns False.
ProbeCount(store, q, ran) ==
    LET r == Execute(store, q)
    IN  CASE r.st = "ok" /\ r.rows # <<>> -> Probed(TRUE, Append(ran, q), TRUE, FALSE)
          [] r.st = "ok" -> Probed(FALSE, Append(ran, q), TRUE, TRUE)
          [] OTHER -> Probed(FALSE, Append(ran, q), TRUE, FALSE)

\* A variant that also falls back when the baseDomain count is zero.
has_linkedin_cookies_fallback_on_zero(store, is_firefox) ==
    IF ~ConnectOk(store) THEN Probed(FALSE, <<>>, FALSE, FALSE)
    ELSE IF is_firefox
    THEN IF \/ Execute(store, "probe_baseDomain").st = "OperationalError"
            \/ /\ Execute(store, "probe_baseDomain").st = "ok"
               /\ Execute(store, "probe_baseDomain").rows = <<>>
         THEN ProbeCount(store, "probe_hostLike", <<"probe_baseDomain">>)
         ELSE ProbeCount(store, "probe_baseDomain", <<>>)
    ELSE ProbeCount(store, "probe_chLike", <<>>)

\* A variant whose outer handler catches OperationalError only.
has_linkedin_cookies_narrow_except(store, is_firefox) ==
    IF store.kind = "corrupt"
    THEN [ret |-> FALSE, ran |-> <<>>, warned |-> FALSE, raised |-> TRUE,
          opened |-> TRUE, closed |-> FALSE]
    ELSE IF ~ConnectOk(store) THEN Probed(FALSE, <<>>, FALSE, FALSE)
    ELSE IF is_firefox
    THEN IF Execute(store, "probe_baseDomain").st = "OperationalError"
         THEN ProbeCount(store, "probe_hostLike", <<"probe_baseDomain">>)
         ELSE ProbeCount(store, "probe_baseDomain", <<>>)
    ELSE ProbeCount(store, "probe_chLike", <<>>)

has_linkedin_cookies(store, is_firefox) ==
    IF ~ConnectOk(store) THEN Probed(FALSE, <<>>, FALSE, FALSE)
    ELSE IF is_firefox
    THEN IF Execute(store, "probe_baseDomain").st = "OperationalError"
         THEN ProbeCount(store, "probe_hostLike", <<"probe_baseDomain">>)
         ELSE ProbeCount(store, "probe_baseDomain", <<>>)
    ELSE ProbeCount(store, "probe_chLike", <<>>)

\* ------------------------------------------------------------------- paths
UpperCase == <<"A", "B", "C", "D", "E", "F", "G", "H", "I", "J", "K", "L", "M", "N", "O", "P", "Q", "R", "S", "T", "U", "V", "W", "X", "Y", "Z">>

LowerCase == <<"a", "b", "c", "d", "e", "f", "g", "h", "i", "j", "k", "l", "m", "n", "o", "p", "q", "r", "s", "t", "u", "v", "w", "x", "y", "z">>

\* str.lower(), one character.
LowerChar(c) ==
    IF \E k \in 1..Len(UpperCase) : UpperCase[k] = c
    THEN LowerCase[CHOOSE k \in 1..Len(UpperCase) : UpperCase[k] = c]
    ELSE c

Lower(s) == [k \in 1..Len(s) |-> LowerChar(s[k])]

HomeAlice ==
    <<"/", "h", "o", "m", "e", "/", "a", "l", "i", "c", "e">>

HomeMozillaFan ==
    <<"/", "h", "o", "m", "e", "/", "m", "o", "z", "i", "l", "l">>
    \o <<"a", "f", "a", "n">>

\* The hosts a run is checked on: <<platform.system(), expanduser("~")>>.
Environments ==
    {<<"Linux", HomeAlice>>, <<"Darwin", HomeAlice>>, <<"Windows", HomeAlice>>,
     <<"Linux", HomeMozillaFan>>}

FirefoxWindows ==
    <<"/", "A", "p", "p", "D", "a", "t", "a", "/", "R", "o", "a">>
    \o <<"m", "i", "n", "g", "/", "M", "o", "z", "i", "l", "l", "a">>
    \o <<"/", "F", "i", "r", "e", "f", "o", "x", "/", "P", "r", "o">>
    \o <<"f", "i", "l", "e", "s", "/">>

FirefoxDarwin ==
    <<"/", "L", "i", "b", "r", "a", "r", "y", "/", "A", "p", "p">>
    \o <<"l", "i", "c", "a", "t", "i", "o", "n", " ", "S", "u", "p">>
    \o <<"p", "o", "r", "t", "/", "F", "i", "r", "e", "f", "o", "x">>
    \o <<"/", "P", "r", "o", "f", "i", "l", "e", "s", "/">>

FirefoxLinux ==
    <<"/", ".", "m", "o", "z", "i", "l", "l", "a", "/", "f", "i">>
    \o <<"r", "e", "f", "o", "x", "/">>

ChromeWindows ==
    <<"/", "A", "p", "p", "D", "a", "t", "a", "/", "L", "o", "c">>
    \o <<"a", "l", "/", "G", "o", "o", "g", "l", "e", "/", "C", "h">>
    \o <<"r", "o", "m", "e", "/", "U", "s", "e", "r", " ", "D", "a">>
    \o <<"t", "a", "/">>

ChromeDarwin ==
    <<"/", "L", "i", "b", "r", "a", "r", "y", "/", "A", "p", "p">>
    \o <<"l", "i", "c", "a", "t", "i", "o", "n", " ", "S", "u", "p">>
    \o <<"p", "o", "r", "t", "/", "G", "o", "o", "g", "l", "e", "/">>
    \o <<"C", "h", "r", "o", "m", "e", "/">>

ChromeLinux ==
    <<"/", ".", "c", "o", "n", "f", "i", "g", "/", "g", "o", "o">>
    \o <<"g", "l", "e", "-", "c", "h", "r", "o", "m", "e", "/">>

EdgeWindows ==
    <<"/", "A", "p", "p", "D", "a", "t", "a", "/", "L", "o", "c">>
    \o <<"a", "l", "/", "M", "i", "c", "r", "o", "s", "o", "f", "t">>
    \o <<"/", "E", "d", "g", "e", "/", "U", "s", "e", "r", " ", "D">>
    \o <<"a", "t", "a", "/">>

EdgeDarwin ==
    <<"/", "L", "i", "b", "r", "a", "r", "y", "/", "A", "p", "p">>
    \o <<"l", "i", "c", "a", "t", "i", "o", "n", " ", "S", "u", "p">>
    \o <<"p", "o", "r", "t", "/", "M", "i", "c", "r", "o", "s", "o">>
    \o <<"f", "t", " ", "E", "d", "g", "e", "/">>

EdgeLinux ==
    <<"/", ".", "c", "o", "n", "f", "i", "g", "/", "m", "i", "c">>
    \o <<"r", "o", "s", "o", "f", "t", "-", "e", "d", "g", "e", "/">>

DirFirefoxProfile ==
    <<"x", "1", "y", "2", ".", "d", "e", "f", "a", "u", "l", "t">>
    \o <<"/", "c", "o", "o", "k", "i", "e", "s", ".", "s", "q", "l">>
    \o <<"i", "t", "e">>

DirDefault ==
    <<"D", "e", "f", "a", "u", "l", "t", "/", "C", "o", "o", "k">>
    \o <<"i", "e", "s">>

DirNamed ==
    <<"P", "r", "o", "f", "i", "l", "e", " ", "W", "o", "r", "k">>
    \o <<"/", "C", "o", "o", "k", "i", "e", "s">>

DirNumbered ==
    <<"P", "r", "o", "f", "i", "l", "e", " ", "1", "/", "C", "o">>
    \o <<"o", "k", "i", "e", "s">>

\* The base directory of a family on a platform, below the home directory.
BasePath(platform, fam) ==
    CASE fam = "firefox" /\ platform = "Windows" -> FirefoxWindows
      [] fam = "firefox" /\ platform = "Darwin" -> FirefoxDarwin
      [] fam = "firefox" -> FirefoxLinux
      [] fam = "chrome" /\ platform = "Windows" -> ChromeWindows
      [] fam = "chrome" /\ platform = "Darwin" -> ChromeDarwin
      [] fam = "chrome" -> ChromeLinux
      [] fam = "edge" /\ platform = "Windows" -> EdgeWindows
      [] fam = "edge" /\ platform = "Darwin" -> EdgeDarwin
      [] OTHER -> EdgeLinux

ProfileDir(profile) ==
    CASE profile = "default" -> DirDefault
      [] profile = "named" -> DirNamed
      [] profile = "numbered" -> DirNumbered
      [] OTHER -> DirFirefoxProfile

\* expanduser() of a glob match: the path of a discovered store.
CookieFilePath(platform, home, fam, profile) ==
    home \o BasePath(platform, fam) \o ProfileDir(profile)

\* 'firefox' in cookiefile.lower() or 'mozilla' in cookiefile.lower()
LooksLikeFirefox(path) ==
    \/ Contains(Lower(path), <<"f", "i", "r", "e", "f", "o", "x">>)
    \/ Contains(Lower(path), <<"m", "o", "z", "i", "l", "l", "a">>)

\* ------------------------------------------------------------ input domain
Str(codes) == [t |-> "str", v |-> codes]

Bytes(codes) == [t |-> "bytes", v |-> codes]

Row(name, value, host, path, expiry, isSecure, isHttpOnly) ==
    [name |-> name, value |-> value, host |-> host, path |-> path,
     expiry |-> expiry, isSecure |-> isSecure, isHttpOnly |-> isHttpOnly]

\* Rows the stores of a whole-run check are filled with.
RowLiAt == Row("li_at", Str(<<97>>), DotLinkedInCom, Some("/"), Some(1700000000), Some(1), Some(1))

RowLiAtBare == Row("li_at", Str(<<98>>), LinkedInCom, Null, Some(0), Some(0), Null)

RowLang == Row("lang", Str(<<97>>), WwwLinkedInCom, Some(""), Null, Null, Some(0))

RowBscookie == Row("bscookie", Str(<<98>>), DotLinkedInCom, Some("/"), Some(1700000000), Some(1), Some(0))

RowEncrypted == Row("JSESSIONID", Bytes(<<255, 97>>), DotLinkedInCom, Some("/"), Null, Some(1), Some(1))

RowForeign == Row("li_at", Str(<<97>>), NotLinkedInCom, Some("/"), Null, Null, Null)

Store(kind, rows, profile) == [kind |-> kind, rows |-> rows, profile |-> profile]

\* What a Firefox profile glob can find.
FirefoxStorePool ==
    {Store("moz_base", <<>>, "ff"),
     Store("moz_base", <<RowLiAt>>, "ff"),
     Store("moz_base", <<RowEncrypted, RowLang>>, "ff"),
     Store("moz_base", <<RowForeign>>, "ff"),
     Store("moz_host", <<RowLiAtBare, RowLang, RowLiAt>>, "ff"),
     Store("moz_host", <<RowLang, RowBscookie>>, "ff"),
     Store("other", <<>>, "ff"),
     Store("corrupt", <<>>, "ff"),
     Store("unopenable", <<>>, "ff")}

\* What the Default / Profile * entries of a Chrome or Edge directory can hold.
ChromiumStorePool ==
    {Store("cookies", <<>>, "default"),
     Store("cookies", <<RowLiAt>>, "default"),
     Store("cookies", <<RowEncrypted, RowLang>>, "numbered"),
     Store("cookies", <<RowEncrypted>>, "named"),
     Store("cookies", <<RowForeign>>, "named"),
     Store("cookies", <<RowLiAtBare, RowLang, RowLiAt>>, "named"),
     Store("cookies", <<RowLang, RowBscookie>>, "numbered"),
     Store("other", <<>>, "named"),
     Store("corrupt", <<>>, "numbered"),
     Store("unopenable", <<>>, "default")}

\* A directory holds one entry of a name: at most one Default.
OneDefault(list) ==
    Cardinality({i \in 1..Len(list) : list[i].profile = "default"}) <= 1

\* ------------------------------------------------------------------- state
VARIABLES
    platform,            \* platform.system()
    home,                \* expanduser("~")
    stores,              \* family -> the stores its directories hold, in listing order
    browser,             \* the `browser` argument ("auto" is None)
    pc,                  \* "start", "extract", "done" ("call", "called" for single calls)
    consulted,           \* the locators called, in call order
    probes,              \* the has_linkedin_cookies calls made, in call order
    cookie_files,        \* the ranked candidates (references <<family, index>>)
    browser_name,
    k,                   \* position of the extraction loop in cookie_files
    extractions,         \* the extractor calls made, in call order
    all_cookies,
    unique_cookies,
    found_auth_cookies,
    artifact,            \* the file at output_file
    result,              \* "pending", the returned "None" / "output_file", or "raised"
    args,                \* the wrapper's parsed command line
    wpc,                 \* the wrapper's position and the arguments of the call in progress
    events,              \* what the wrapper did, in order: records [op, arg]
    exit_code            \* Null while running, else the wrapper's exit status

vars ==
    <<platform, home, stores, browser, pc, consulted, probes, cookie_files, browser_name,
      k, extractions, all_cookies, unique_cookies, found_auth_cookies, artifact, result,
      args, wpc, events, exit_code>>

wrapper_vars == <<args, wpc, events, exit_code>>

\* The wrapper is not part of the run.
WrapperNotRun ==
    /\ args = <<>>
    /\ wpc = [at |-> "idle", headless |-> FALSE, cookie_file |-> Null]
    /\ events = <<>>
    /\ exit_code = Null

inputs == <<platform, home, stores, browser>>

Ref(fam, i) == [fam |-> fam, i |-> i]

StoreAt(ref) == stores[ref.fam][ref.i]

\* ---------------------------------------------------------------- locators
RECURSIVE GlobProfiles(_, _, _, _)
\* glob() of one pattern: the entries of a directory whose name matches, in
\* listing order.
GlobProfiles(fam, list, matching, i) ==
    IF i > Len(list) THEN <<>>
    ELSE (IF list[i].profile \in matching THEN <<Ref(fam, i)>> ELSE <<>>)
             \o GlobProfiles(fam, list, matching, i + 1)

\* all_cookiefiles of get_firefox_cookie_files: every profile of each pattern.
FirefoxCandidates(list) == GlobProfiles("firefox", list, {"ff"}, 1)

\* cookie_files of get_chrome_cookie_files / get_edge_cookie_files: Default,
\* then the glob "Profile *", then the glob "Profile [0-9]*".
ChromiumCandidates(fam, list) ==
    GlobProfiles(fam, list, {"default"}, 1)
        \o GlobProfiles(fam, list, {"named", "numbered"}, 1)
        \o GlobProfiles(fam, list, {"numbered"}, 1)

Candidates(fam, fs) ==
    IF fam = "firefox" THEN FirefoxCandidates(fs[fam]) ELSE ChromiumCandidates(fam, fs[fam])

RECURSIVE ProbeCalls(_, _, _, _)
\* The has_linkedin_cookies calls of a locator's loop over its candidates.
ProbeCalls(fs, files, is_firefox, i) ==
    IF i > Len(files) THEN <<>>
    ELSE <<[ref |-> files[i], is_firefox |-> is_firefox,
            out |-> has_linkedin_cookies(fs[files[i].fam][files[i].i], is_firefox)]>>
             \o ProbeCalls(fs, files, is_firefox, i + 1)

\* An exception leaving a call would end the loop there: the calls made.
UntilRaised(calls) ==
    IF \E i \in 1..Len(calls) : calls[i].out.raised
    THEN SubSeq(calls, 1, CHOOSE i \in 1..Len(calls) :
                             /\ calls[i].out.raised
                             /\ \A j \in 1..(i - 1) : ~calls[j].out.raised)
    ELSE calls

RECURSIVE Bucket(_, _, _)
\* `prioritized` (want = TRUE) or `others` (want = FALSE), filled in
\* candidate order from the probe results.
Bucket(calls, want, i) ==
    IF i > Len(calls) THEN <<>>
    ELSE (IF calls[i].out.ret = want THEN <<calls[i].ref>> ELSE <<>>)
             \o Bucket(calls, want, i + 1)

\* A variant returning others + prioritized.
RankedOthersFirst(calls) == Bucket(calls, FALSE, 1) \o Bucket(calls, TRUE, 1)

\* return prioritized + others
Ranked(calls) == Bucket(calls, TRUE, 1) \o Bucket(calls, FALSE, 1)

\* get_firefox_cookie_files / get_chrome_cookie_files / get_edge_cookie_files:
\* the returned list and the probes made.
Locate(fam, fs) ==
    LET calls == UntilRaised(ProbeCalls(fs, Candidates(fam, fs), fam = "firefox", 1))
    IN  [files |-> Ranked(calls), probes |-> calls,
         raised |-> \E i \in 1..Len(calls) : calls[i].out.raised]

\* ------------------------------------------------------------- aggregation
Key(cookie) == <<cookie.name, cookie.domain>>

\* A variant that never records a key as seen.
RemoveDuplicatesKeepAll(cookies, seen, i) == SubSeq(cookies, i, Len(cookies))

RECURSIVE RemoveDuplicates(_, _, _)
\* The `seen` / `unique_cookies` loop: keep first occurrence.
RemoveDuplicates(cookies, seen, i) ==
    IF i > Len(cookies) THEN <<>>
    ELSE IF Key(cookies[i]) \notin seen
         THEN <<cookies[i]>> \o RemoveDuplicates(cookies, seen \cup {Key(cookies[i])}, i + 1)
         ELSE RemoveDuplicates(cookies, seen, i + 1)

InList(x, list) == \E i \in 1..Len(list) : list[i] = x

\* A variant testing the module-level list LINKEDIN_AUTH_COOKIES instead.
FoundAuthModuleList(cookies) ==
    \E i \in 1..Len(cookies) : InList(cookies[i].name, LINKEDIN_AUTH_COOKIES)

\* any(c['name'] in auth_cookie_names for c in unique_cookies)
FoundAuth(cookies) == \E i \in 1..Len(cookies) : InList(cookies[i].name, auth_cookie_names)

\* json.dump accepts the cookie: every field is a JSON type (bytes is not).
JsonSerializable(cookie) == cookie.value.t = "str"

RECURSIVE DumpedPrefix(_, _)
\* The cookies json.dump wrote before it raised (all of them if it did not).
DumpedPrefix(cookies, i) ==
    IF i > Len(cookies) \/ ~JsonSerializable(cookies[i]) THEN <<>>
    ELSE <<cookies[i]>> \o DumpedPrefix(cookies, i + 1)

\* ----------------------------------------------------------------- actions
BrowserName(fam) ==
    CASE fam = "firefox" -> "Firefox" [] fam = "chrome" -> "Chrome" [] OTHER -> "Edge"

\* Lines 322-356: the candidate list, the family it came from and the
\* locators called.  `order` is the families tried in turn.
RECURSIVE Detect(_, _, _, _)
Detect(fs, order, i, called) ==
    IF i > Len(order)
    THEN [files |-> <<>>, name |-> "", consulted |-> called, probes |-> <<>>, raised |-> FALSE]
    ELSE LET found == Locate(order[i], fs)
         IN  IF found.files # <<>> \/ found.raised
             THEN [files |-> found.files, name |-> BrowserName(order[i]),
                   consulted |-> Append(called, order[i]), probes |-> found.probes,
                   raised |-> found.raised]
             ELSE Detect(fs, order, i + 1, Append(called, order[i]))

\* A variant in which a selected browser without candidates falls through
\* to auto-detection.
ChooseFilesFallThrough(fs, b) ==
    IF b \in {"firefox", "chrome", "edge"} /\ Locate(b, fs).files # <<>>
    THEN [files |-> Locate(b, fs).files, name |-> BrowserName(b), consulted |-> <<b>>,
          probes |-> Locate(b, fs).probes, raised |-> FALSE]
    ELSE Detect(fs, <<"firefox", "chrome", "edge">>, 1, <<>>)

\* The `if browser and browser.lower() == ...` chain.
ChooseFiles(fs, b) ==
    IF b \in {"firefox", "chrome", "edge"}
    THEN LET found == Locate(b, fs)
         IN  [files |-> found.files, name |-> BrowserName(b), consulted |-> <<b>>,
              probes |-> found.probes, raised |-> found.raised]
    ELSE Detect(fs, <<"firefox", "chrome", "edge">>, 1, <<>>)

\* `if not cookie_files: ... return None` (lines 358-362).
StartOutcome(files) ==
    IF files = <<>> THEN [pc |-> "done", result |-> "None"]
    ELSE [pc |-> "extract", result |-> "pending"]

\* extract_linkedin_cookies up to the extraction loop (lines 319-365).
Start ==
    /\ pc = "start"
    /\ LET chosen == ChooseFiles(stores, browser)
       IN  /\ cookie_files' = chosen.files
           /\ browser_name' = chosen.name
           /\ consulted' = chosen.consulted
           /\ probes' = chosen.probes
           /\ pc' = IF chosen.raised THEN "done" ELSE StartOutcome(chosen.files).pc
           /\ result' = IF chosen.raised THEN "raised" ELSE StartOutcome(chosen.files).result
    /\ UNCHANGED <<wrapper_vars, inputs, k, extractions, all_cookies, unique_cookies,
                   found_auth_cookies, artifact>>

\* The extractor the loop hands a path to (lines 374-377).
ExtractorFor(path) == IF LooksLikeFirefox(path) THEN "firefox" ELSE "chrome_edge"

RunExtractor(extractor, store) ==
    IF extractor = "firefox" THEN extract_cookies_from_firefox(store)
    ELSE extract_cookies_from_chrome_edge(store)

\* A variant that puts a store's cookies in front of the accumulated ones.
ExtendAtFront(cookies, ret) ==
    IF ret.some /\ ret.cookies # <<>> THEN ret.cookies \o cookies ELSE cookies

\* `if cookies: all_cookies.extend(cookies)`
Extend(cookies, ret) == IF ret.some /\ ret.cookies # <<>> THEN cookies \o ret.cookies ELSE cookies

\* One iteration of `for cookiefile in cookie_files` (lines 369-382); an
\* exception leaving the extractor would leave extract_linkedin_cookies too.
ExtractOne ==
    /\ pc = "extract"
    /\ k <= Len(cookie_files)
    /\ LET ref == cookie_files[k]
           store == StoreAt(ref)
           extractor == ExtractorFor(CookieFilePath(platform, home, ref.fam, store.profile))
           out == RunExtractor(extractor, store)
       IN  /\ extractions' =
                 Append(extractions, [ref |-> ref, extractor |-> extractor, out |-> out])
           /\ IF out.raised
              THEN /\ pc' = "done"
                   /\ result' = "raised"
                   /\ UNCHANGED <<k, all_cookies>>
              ELSE /\ all_cookies' = Extend(all_cookies, out.ret)
                   /\ k' = k + 1
                   /\ UNCHANGED <<pc, result>>
    /\ UNCHANGED <<wrapper_vars, inputs, consulted, probes, cookie_files, browser_name, unique_cookies,
                   found_auth_cookies, artifact>>

\* Lines 384-388: nothing was extracted.
NoCookies ==
    /\ pc = "extract"
    /\ k > Len(cookie_files)
    /\ all_cookies = <<>>
    /\ result' = "None"
    /\ pc' = "done"
    /\ UNCHANGED <<wrapper_vars, inputs, consulted, probes, cookie_files, browser_name, k, extractions,
                   all_cookies, unique_cookies, found_auth_cookies, artifact>>

\* A variant whose save step reports success whatever open() and dump() did.
SaveSwallowingErrors ==
    /\ pc = "extract"
    /\ k > Len(cookie_files)
    /\ all_cookies # <<>>
    /\ unique_cookies' = RemoveDuplicates(all_cookies, {}, 1)
    /\ found_auth_cookies' = FoundAuth(RemoveDuplicates(all_cookies, {}, 1))
    /\ \/ artifact' = artifact
       \/ artifact' = [state |-> "written", cookies |-> RemoveDuplicates(all_cookies, {}, 1)]
    /\ result' = "output_file"
    /\ pc' = "done"
    /\ UNCHANGED <<wrapper_vars, inputs, consulted, probes, cookie_files, browser_name, k, extractions,
                   all_cookies>>

\* A variant that treats a false verdict as a failure: nothing is written.
SaveRequiringAuth ==
    /\ pc = "extract"
    /\ k > Len(cookie_files)
    /\ all_cookies # <<>>
    /\ unique_cookies' = RemoveDuplicates(all_cookies, {}, 1)
    /\ found_auth_cookies' = FoundAuth(RemoveDuplicates(all_cookies, {}, 1))
    /\ \E io \in {"ok", "open_raises", "write_raises"} :
          CASE io = "open_raises" \/ ~FoundAuth(RemoveDuplicates(all_cookies, {}, 1)) ->
                    artifact' = artifact /\ result' = "None"
            [] io = "write_raises"
                 \/ DumpedPrefix(RemoveDuplicates(all_cookies, {}, 1), 1)
                       # RemoveDuplicates(all_cookies, {}, 1) ->
                    /\ artifact' = [state |-> "partial",
                                    cookies |-> DumpedPrefix(RemoveDuplicates(all_cookies, {}, 1), 1)]
                    /\ result' = "None"
            [] OTHER ->
                    /\ artifact' = [state |-> "written",
                                    cookies |-> RemoveDuplicates(all_cookies, {}, 1)]
                    /\ result' = "output_file"
    /\ pc' = "done"
    /\ UNCHANGED <<wrapper_vars, inputs, consulted, probes, cookie_files, browser_name, k, extractions,
                   all_cookies>>

\* Lines 390-423: deduplication, the verdict and the save.  `io` is what the
\* file system does: open() raises, a write raises, or both succeed.
Save ==
    /\ pc = "extract"
    /\ k > Len(cookie_files)
    /\ all_cookies # <<>>
    /\ LET unique == RemoveDuplicates(all_cookies, {}, 1)
           dumped == DumpedPrefix(unique, 1)
       IN  /\ unique_cookies' = unique
           /\ found_auth_cookies' = FoundAuth(unique)
           /\ \E io \in {"ok", "open_raises", "write_raises"} :
                CASE io = "open_raises" -> artifact' = artifact /\ result' = "None"
                  [] io = "write_raises" \/ dumped # unique ->
                        /\ artifact' = [state |-> "partial", cookies |-> dumped]
                        /\ result' = "None"
                  [] OTHER ->
                        /\ artifact' = [state |-> "written", cookies |-> unique]
                        /\ result' = "output_file"
    /\ pc' = "done"
    /\ UNCHANGED <<wrapper_vars, inputs, consulted, probes, cookie_files, browser_name, k, extractions,
                   all_cookies>>

\* main(): sys.exit(0) if the run returned a path, sys.exit(1) otherwise.
ExitCode(returned) == IF returned = "output_file" THEN 0 ELSE 1

\* ------------------------------------------------------------- whole runs
RECURSIVE SeqsOfLen(_, _)
\* Sequences over S of length n.
SeqsOfLen(S, n) ==
    IF n = 0 THEN {<<>>}
    ELSE {Append(q, x) : q \in SeqsOfLen(S, n - 1), x \in S}

ChromiumDirs(n) == {list \in SeqsOfLen(ChromiumStorePool, n) : OneDefault(list)}

\* The stores of a host: at most MaxStores in all.
Hosts ==
    UNION {{[firefox |-> f, chrome |-> c, edge |-> e] :
                f \in SeqsOfLen(FirefoxStorePool, n[1]),
                c \in ChromiumDirs(n[2]),
                e \in ChromiumDirs(n[3])} :
           n \in {t \in (0..MaxStores) \X (0..MaxStores) \X (0..MaxStores) :
                     t[1] + t[2] + t[3] <= MaxStores}}

Init ==
    /\ \E env \in Environments : platform = env[1] /\ home = env[2]
    /\ stores \in Hosts
    /\ browser \in {"auto", "firefox", "chrome", "edge"}
    /\ pc = "start"
    /\ consulted = <<>>
    /\ probes = <<>>
    /\ cookie_files = <<>>
    /\ browser_name = ""
    /\ k = 1
    /\ extractions = <<>>
    /\ all_cookies = <<>>
    /\ unique_cookies = <<>>
    /\ found_auth_cookies = FALSE
    /\ artifact = [state |-> "absent", cookies |-> <<>>]
    /\ result = "pending"
    /\ WrapperNotRun

Next ==
    \/ Start
    \/ ExtractOne
    \/ NoCookies
    \/ Save

Spec == Init /\ [][Next]_vars

\* ------------------------------------------------------------ single calls
\* One store of any content, and one call of the prober or of an extractor
\* on it.
RECURSIVE SeqsUpTo(_, _)
\* Sequences over S of length at most n.
SeqsUpTo(S, n) ==
    IF n = 0 THEN {<<>>}
    ELSE SeqsUpTo(S, n - 1) \cup SeqsOfLen(S, n)

RowDomain ==
    {Row(name, value, host,
         IF name = "li_at" THEN Some("/") ELSE Null,
         IF name = "li_at" THEN Some(1700000000) ELSE Null,
         IF name = "li_at" THEN Some(0) ELSE Null,
         IF name = "li_at" THEN Some(1) ELSE Null) :
        name \in {"li_at", "lang"},
        value \in {Str(<<97>>), Bytes(<<97>>), Bytes(<<255>>)},
        host \in {DotLinkedInCom, WwwLinkedInCom, NotLinkedInCom}}

StoreDomain ==
    {Store(kind, rows, "ff") :
        kind \in {"moz_base", "moz_host", "cookies"}, rows \in SeqsUpTo(RowDomain, MaxRows)}
        \cup {Store(kind, <<>>, "ff") : kind \in {"other", "corrupt", "unopenable"}}

TheStore == Ref("firefox", 1)

InitStore ==
    /\ platform = "Linux"
    /\ home = HomeAlice
    /\ \E store \in StoreDomain :
          stores = [firefox |-> <<store>>, chrome |-> <<>>, edge |-> <<>>]
    /\ browser = "auto"
    /\ pc = "call"
    /\ consulted = <<>>
    /\ probes = <<>>
    /\ cookie_files = <<>>
    /\ browser_name = ""
    /\ k = 1
    /\ extractions = <<>>
    /\ all_cookies = <<>>
    /\ unique_cookies = <<>>
    /\ found_auth_cookies = FALSE
    /\ artifact = [state |-> "absent", cookies |-> <<>>]
    /\ result = "pending"
    /\ WrapperNotRun

\* has_linkedin_cookies(cookiefile, is_firefox)
CallProber ==
    /\ pc = "call"
    /\ \E is_firefox \in BOOLEAN :
          probes' = Append(probes, [ref |-> TheStore, is_firefox |-> is_firefox,
                                    out |-> has_linkedin_cookies(StoreAt(TheStore), is_firefox)])
    /\ pc' = "called"
    /\ UNCHANGED <<wrapper_vars, inputs, consulted, cookie_files, browser_name, k, extractions, all_cookies,
                   unique_cookies, found_auth_cookies, artifact, result>>

\* extract_cookies_from_firefox(cookiefile)
CallFirefoxExtractor ==
    /\ pc = "call"
    /\ extractions' = Append(extractions, [ref |-> TheStore, extractor |-> "firefox",
                                           out |-> extract_cookies_from_firefox(StoreAt(TheStore))])
    /\ pc' = "called"
    /\ UNCHANGED <<wrapper_vars, inputs, consulted, probes, cookie_files, browser_name, k, all_cookies,
                   unique_cookies, found_auth_cookies, artifact, result>>

\* extract_cookies_from_chrome_edge(cookiefile)
CallChromeExtractor ==
    /\ pc = "call"
    /\ extractions' = Append(extractions, [ref |-> TheStore, extractor |-> "chrome_edge",
                                           out |-> extract_cookies_from_chrome_edge(StoreAt(TheStore))])
    /\ pc' = "called"
    /\ UNCHANGED <<wrapper_vars, inputs, consulted, probes, cookie_files, browser_name, k, all_cookies,
                   unique_cookies, found_auth_cookies, artifact, result>>

NextStore ==
    \/ CallProber
    \/ CallFirefoxExtractor
    \/ CallChromeExtractor

SpecStore == InitStore /\ [][NextStore]_vars

\* ---------------------------------------------------------- locator calls
\* Longest candidate directory a locator call is checked on.
MaxCandidates == 3

\* One family's directory of any listing, and the locator called on it
\* (the `browser` argument selects the locator).
InitRank ==
    /\ \E env \in Environments : platform = env[1] /\ home = env[2]
    /\ browser \in {"firefox", "chrome", "edge"}
    /\ \E n \in 0..MaxCandidates :
          \E list \in (IF browser = "firefox" THEN SeqsOfLen(FirefoxStorePool, n)
                       ELSE ChromiumDirs(n)) :
             stores = [fam \in Families |-> IF fam = browser THEN list ELSE <<>>]
    /\ pc = "start"
    /\ consulted = <<>>
    /\ probes = <<>>
    /\ cookie_files = <<>>
    /\ browser_name = ""
    /\ k = 1
    /\ extractions = <<>>
    /\ all_cookies = <<>>
    /\ unique_cookies = <<>>
    /\ found_auth_cookies = FALSE
    /\ artifact = [state |-> "absent", cookies |-> <<>>]
    /\ result = "pending"
    /\ WrapperNotRun

SpecRank == InitRank /\ [][Start]_vars

\* --------------------------------------------------------- row conversions
\* The longest raw host of a row-conversion check.
MaxHostLen == 3

\* Raw hosts: every string of dots and letters up to MaxHostLen, the empty one
\* included.
HostDomain == SeqsUpTo({".", "a"}, MaxHostLen)

\* The flag cells a store can hold: NULL, 0, 1 and another integer.
FlagDomain == {Null, Some(0), Some(1), Some(2)}

InitRow ==
    /\ platform = "Linux"
    /\ home = HomeAlice
    /\ \E host \in HostDomain, isSecure \in FlagDomain, isHttpOnly \in FlagDomain,
          value \in {Str(<<97>>), Bytes(<<97>>)}, path \in {Null, Some("/feed")} :
          stores = [firefox |-> <<Store("moz_host",
                                        <<Row("li_at", value, host, path, Null,
                                              isSecure, isHttpOnly)>>, "ff")>>,
                    chrome |-> <<>>, edge |-> <<>>]
    /\ browser = "auto"
    /\ pc = "call"
    /\ consulted = <<>>
    /\ probes = <<>>
    /\ cookie_files = <<>>
    /\ browser_name = ""
    /\ k = 1
    /\ extractions = <<>>
    /\ all_cookies = <<>>
    /\ unique_cookies = <<>>
    /\ found_auth_cookies = FALSE
    /\ artifact = [state |-> "absent", cookies |-> <<>>]
    /\ result = "pending"
    /\ WrapperNotRun

\* The cookie dict the named extractor builds from a row.
CookieOf(extractor, row) ==
    IF extractor = "firefox" THEN FirefoxCookie(row) ELSE ChromeCookie(row)

\* One pass of an extractor's row loop over `row`.
Converted(extractor, row) ==
    [ref |-> TheStore, extractor |-> extractor, row |-> row,
     out |-> Returned(List(<<CookieOf(extractor, row)>>), <<>>)]

\* The row loop of extract_cookies_from_firefox on the store's row.
ConvertFirefoxRow ==
    /\ pc = "call"
    /\ extractions' = <<Converted("firefox", StoreAt(TheStore).rows[1])>>
    /\ pc' = "converted"
    /\ UNCHANGED <<wrapper_vars, inputs, consulted, probes, cookie_files, browser_name, k, all_cookies,
                   unique_cookies, found_auth_cookies, artifact, result>>

\* The row loop of extract_cookies_from_chrome_edge on the store's row.
ConvertChromeRow ==
    /\ pc = "call"
    /\ ~ChromeRowSkipped(StoreAt(TheStore).rows[1])
    /\ extractions' = <<Converted("chrome_edge", StoreAt(TheStore).rows[1])>>
    /\ pc' = "converted"
    /\ UNCHANGED <<wrapper_vars, inputs, consulted, probes, cookie_files, browser_name, k, all_cookies,
                   unique_cookies, found_auth_cookies, artifact, result>>

\* Either row loop on a row whose host is the domain just produced.
ConvertAgain ==
    /\ pc = "converted"
    /\ \E extractor \in {"firefox", "chrome_edge"} :
          extractions' =
              Append(extractions,
                     Converted(extractor,
                               [extractions[1].row EXCEPT
                                   !.host = extractions[1].out.ret.cookies[1].domain]))
    /\ pc' = "converted_again"
    /\ UNCHANGED <<wrapper_vars, inputs, consulted, probes, cookie_files, browser_name, k, all_cookies,
                   unique_cookies, found_auth_cookies, artifact, result>>

NextRow ==
    \/ ConvertFirefoxRow
    \/ ConvertChromeRow
    \/ ConvertAgain

SpecRow == InitRow /\ [][NextRow]_vars

\* ------------------------------------------------ runs over one-row stores
\* A host whose only cookie file is a Firefox store holding one li_at row on
\* .linkedin.com, with any of the other cells.
InitOneRow ==
    /\ \E env \in Environments : platform = env[1] /\ home = env[2]
    /\ \E kind \in {"moz_base", "moz_host", "corrupt"},
          value \in {Str(<<97>>), Bytes(<<255>>)},
          path \in {Null, Some(""), Some("/"), Some("/feed")},
          expiry \in {Null, Some(1700000000)},
          isSecure \in FlagDomain, isHttpOnly \in {Null, Some(1)} :
          stores = [firefox |-> <<Store(kind,
                                        <<Row("li_at", value, DotLinkedInCom, path, expiry,
                                              isSecure, isHttpOnly)>>, "ff")>>,
                    chrome |-> <<>>, edge |-> <<>>]
    /\ browser \in {"auto", "firefox", "chrome"}
    /\ pc = "start"
    /\ consulted = <<>>
    /\ probes = <<>>
    /\ cookie_files = <<>>
    /\ browser_name = ""
    /\ k = 1
    /\ extractions = <<>>
    /\ all_cookies = <<>>
    /\ unique_cookies = <<>>
    /\ found_auth_cookies = FALSE
    /\ artifact = [state |-> "absent", cookies |-> <<>>]
    /\ result = "pending"
    /\ WrapperNotRun

SpecOneRow == InitOneRow /\ [][Next]_vars

\* ------------------------------------------------------------ the wrapper
\* linkedin_scraper_wrapper.py.  The browser and the network are the
\* environment: each step draws what they do.
extractor_vars ==
    <<inputs, pc, consulted, probes, cookie_files, browser_name, k, extractions,
      all_cookies, unique_cookies, found_auth_cookies, artifact, result>>

\* choices of --mode
Modes == {"person", "company", "jobs", "session", "multiple"}

\* auth_cookie_names of create_session_from_cookies
wrapper_auth_cookie_names == <<"li_at", "JSESSIONID", "bcookie", "bscookie">>

Event(op, arg, url) == [op |-> op, arg |-> arg, url |-> url]

\* The wrapper's position: the function it is in, with that call's headless
\* and cookie_file arguments.
At(at, headless, cookie_file) == [at |-> at, headless |-> headless, cookie_file |-> cookie_file]

Visibility(headless) == IF headless THEN "headless" ELSE "visible"

\* Page URLs the browser can end on (path part).
UrlHome == <<"/">>

UrlFeed == <<"/", "f", "e", "e", "d", "/">>

UrlLogin == <<"/", "l", "o", "g", "i", "n">>

UrlUasLogin == <<"/", "u", "a", "s", "/", "L", "o", "g", "i", "n">>

UrlAuthwall == <<"/", "a", "u", "t", "h", "w", "a", "l", "l">>

Urls == {UrlHome, UrlFeed, UrlLogin, UrlUasLogin, UrlAuthwall}

\* 'login' in url.lower() or 'authwall' in url.lower()
OnLoginPage(url) ==
    \/ Contains(Lower(url), <<"l", "o", "g", "i", "n">>)
    \/ Contains(Lower(url), <<"a", "u", "t", "h", "w", "a", "l", "l">>)

\* The cookie file names a command line can give: the extractor's artifact
\* and a path where no file is.
CookiesJson == "linkedin_cookies.json"

MissingJson == "missing.json"

\* Path(cookie_file).exists()
FileExists(path) == path = CookiesJson /\ artifact.state # "absent"

\* json.load succeeds: a partly written artifact is not a JSON document.
JsonLoads(path) == path = CookiesJson /\ artifact.state = "written"

\* A variant of the wrapper's check testing LINKEDIN_AUTH_COOKIES.
WrapperFoundAuthModuleList(cookies) ==
    \E i \in 1..Len(cookies) : InList(cookies[i].name, LINKEDIN_AUTH_COOKIES)

\* any(c.get('name') in auth_cookie_names for c in cookies)
WrapperFoundAuth(cookies) ==
    \E i \in 1..Len(cookies) : InList(cookies[i].name, wrapper_auth_cookie_names)

\* The artifacts a wrapper run can find at the cookie file's path.
ArtifactDomain ==
    {[state |-> "absent", cookies |-> <<>>], [state |-> "partial", cookies |-> <<>>]}
        \cup {[state |-> "written", cookies |-> FirefoxCookies(rows, 1)] :
                 rows \in {<<RowLang>>, <<RowLiAt, RowLang>>, <<RowLang, RowBscookie>>}}

\* The parsed command lines: `url`, `urls` and `keywords` say whether the
\* option was given.
ArgsDomain ==
    [mode : Modes, mock : BOOLEAN, headless : BOOLEAN,
     cookies : {Null, Some(CookiesJson), Some(MissingJson)},
     url : BOOLEAN, urls : BOOLEAN, keywords : BOOLEAN]

\* A process running main(), or a caller of create_session or
\* create_session_from_cookies with the command line's values.
InitWrapper ==
    /\ platform = "Linux"
    /\ home = HomeAlice
    /\ stores = [firefox |-> <<>>, chrome |-> <<>>, edge |-> <<>>]
    /\ browser = "auto"
    /\ pc = "done"
    /\ consulted = <<>>
    /\ probes = <<>>
    /\ cookie_files = <<>>
    /\ browser_name = ""
    /\ k = 1
    /\ extractions = <<>>
    /\ all_cookies = <<>>
    /\ artifact \in ArtifactDomain
    /\ unique_cookies = artifact.cookies
    /\ found_auth_cookies = FoundAuth(artifact.cookies)
    /\ result = IF artifact.state = "written" THEN "output_file" ELSE "None"
    /\ args \in ArgsDomain
    /\ \/ wpc = At("main", FALSE, Null)
       \/ wpc = At("create_session", args.headless, args.cookies)
       \/ args.cookies # Null /\ wpc = At("create_session_from_cookies", args.headless, args.cookies)
    /\ events = <<>>
    /\ exit_code = Null

\* The option a mode requires, and whether the command line gave it.
Required(mode) ==
    CASE mode \in {"person", "company"} -> "--url"
      [] mode = "multiple" -> "--urls"
      [] mode = "jobs" -> "--keywords"
      [] OTHER -> ""

Given(a) ==
    CASE a.mode \in {"person", "company"} -> a.url
      [] a.mode = "multiple" -> a.urls
      [] a.mode = "jobs" -> a.keywords
      [] OTHER -> TRUE

\* The function main() runs for a mode, "" when it has no branch for it.
MockOperation(mode) ==
    CASE mode = "person" -> "mock_scrape_person"
      [] mode = "multiple" -> "mock_scrape_multiple_profiles"
      [] mode = "company" -> "mock_scrape_company"
      [] mode = "jobs" -> "mock_search_jobs"
      [] OTHER -> ""

Operation(mode) ==
    CASE mode = "session" -> "create_session"
      [] mode = "person" -> "scrape_person"
      [] mode = "company" -> "scrape_company"
      [] mode = "jobs" -> "search_jobs"
      [] OTHER -> ""

\* main(), up to the end of the process or to the call of create_session.
\* `outcome` is what the operation it runs does, `importable` whether
\* linkedin_scraper_mock can be imported.
Main ==
    /\ wpc.at = "main"
    /\ \E outcome \in {"returned", "raised"}, importable \in BOOLEAN :
          IF args.mock /\ ~importable
          THEN /\ events' = <<Event("print_error", "Could not import mock scraper", <<>>)>>
               /\ exit_code' = Some(1)
               /\ wpc' = At("done", FALSE, Null)
          ELSE IF args.mock /\ args.mode = "session"
          THEN /\ events' = <<Event("print_error", "Mock mode does not support session creation", <<>>)>>
               /\ exit_code' = Some(1)
               /\ wpc' = At("done", FALSE, Null)
          ELSE IF ~args.mock /\ args.mode = "session"
          THEN /\ events' = <<Event("call", "create_session", <<>>)>>
               /\ exit_code' = Null
               /\ wpc' = At("create_session", IF args.headless THEN FALSE ELSE args.headless, Null)
          ELSE IF (IF args.mock THEN MockOperation(args.mode) ELSE Operation(args.mode)) = ""
          THEN /\ events' = <<>>
               /\ exit_code' = Some(0)
               /\ wpc' = At("done", FALSE, Null)
          ELSE IF ~Given(args)
          THEN /\ events' = <<Event("print_error", Required(args.mode), <<>>)>>
               /\ exit_code' = Some(1)
               /\ wpc' = At("done", FALSE, Null)
          ELSE /\ events' = <<Event("call", IF args.mock THEN MockOperation(args.mode)
                                            ELSE Operation(args.mode), <<>>),
                              Event(outcome, "", <<>>)>>
               /\ exit_code' = Some(IF outcome = "raised" THEN 1 ELSE 0)
               /\ wpc' = At("done", FALSE, Null)
    /\ UNCHANGED <<extractor_vars, args>>

\* create_session, lines 127-135: with a cookie file, cookie-based creation
\* comes first.
CreateSession ==
    /\ wpc.at = "create_session"
    /\ IF wpc.cookie_file # Null
       THEN /\ events' = Append(events, Event("call", "create_session_from_cookies", <<>>))
            /\ wpc' = At("create_session:cookies", wpc.headless, wpc.cookie_file)
       ELSE /\ events' = events
            /\ wpc' = At("manual", wpc.headless, wpc.cookie_file)
    /\ UNCHANGED <<extractor_vars, args, exit_code>>

\* A variant that verifies only the URL after the navigation to /feed.
InBrowserFeedCheckOnly(headless, launches, reload_url, feed_url) ==
    IF ~launches
    THEN [events |-> <<Event("raised", "BrowserManager", <<>>)>>, ret |-> "raised"]
    ELSE IF OnLoginPage(feed_url)
    THEN [events |-> <<Event("launch_browser", Visibility(headless), <<>>),
                       Event("goto", "https://www.linkedin.com", <<>>),
                       Event("add_cookies", "", <<>>),
                       Event("reload", "", reload_url),
                       Event("goto", "https://www.linkedin.com/feed", feed_url),
                       Event("return", "False", <<>>)>>,
          ret |-> "False"]
    ELSE [events |-> <<Event("launch_browser", Visibility(headless), <<>>),
                       Event("goto", "https://www.linkedin.com", <<>>),
                       Event("add_cookies", "", <<>>),
                       Event("reload", "", reload_url),
                       Event("goto", "https://www.linkedin.com/feed", feed_url),
                       Event("save_session", "create_session_from_cookies", <<>>),
                       Event("return", "True", <<>>)>>,
          ret |-> "True"]

\* Lines 66-118 of create_session_from_cookies, after the cookies were
\* loaded.  `launches` says whether the browser starts; reload_url and
\* feed_url are the URLs the page is on after the reload and after the
\* navigation to /feed.
InBrowser(headless, launches, reload_url, feed_url) ==
    IF ~launches
    THEN [events |-> <<Event("raised", "BrowserManager", <<>>)>>, ret |-> "raised"]
    ELSE IF OnLoginPage(reload_url)
    THEN [events |-> <<Event("launch_browser", Visibility(headless), <<>>),
                       Event("goto", "https://www.linkedin.com", <<>>),
                       Event("add_cookies", "", <<>>),
                       Event("reload", "", reload_url),
                       Event("return", "False", <<>>)>>,
          ret |-> "False"]
    ELSE IF OnLoginPage(feed_url)
    THEN [events |-> <<Event("launch_browser", Visibility(headless), <<>>),
                       Event("goto", "https://www.linkedin.com", <<>>),
                       Event("add_cookies", "", <<>>),
                       Event("reload", "", reload_url),
                       Event("goto", "https://www.linkedin.com/feed", feed_url),
                       Event("return", "False", <<>>)>>,
          ret |-> "False"]
    ELSE [events |-> <<Event("launch_browser", Visibility(headless), <<>>),
                       Event("goto", "https://www.linkedin.com", <<>>),
                       Event("add_cookies", "", <<>>),
                       Event("reload", "", reload_url),
                       Event("goto", "https://www.linkedin.com/feed", feed_url),
                       Event("save_session", "create_session_from_cookies", <<>>),
                       Event("return", "True", <<>>)>>,
          ret |-> "True"]

\* create_session_from_cookies(cookie_file, session_file, headless)
FromCookies(cookie_file, headless, launches, reload_url, feed_url) ==
    IF ~FileExists(cookie_file)
    THEN [events |-> <<Event("print_error", "Cookie file not found", <<>>),
                       Event("return", "False", <<>>)>>,
          ret |-> "False"]
    ELSE IF ~JsonLoads(cookie_file)
    THEN [events |-> <<Event("print_error", "Error loading cookies", <<>>),
                       Event("return", "False", <<>>)>>,
          ret |-> "False"]
    ELSE [events |-> <<Event("found_auth",
                             IF WrapperFoundAuth(artifact.cookies) THEN "True" ELSE "False",
                             <<>>)>>
                        \o InBrowser(headless, launches, reload_url, feed_url).events,
          ret |-> InBrowser(headless, launches, reload_url, feed_url).ret]

\* Where the wrapper goes when create_session_from_cookies ends with ret.
AfterFromCookies(ret) ==
    IF wpc.at = "create_session:cookies" /\ ret = "False"
    THEN At("manual", wpc.headless, wpc.cookie_file)
    ELSE At("done", FALSE, Null)

\* One call of create_session_from_cookies, from create_session or directly.
CreateSessionFromCookies ==
    /\ wpc.at \in {"create_session_from_cookies", "create_session:cookies"}
    /\ \E launches \in BOOLEAN, reload_url \in Urls, feed_url \in Urls :
          /\ events' = events \o FromCookies(wpc.cookie_file[1], wpc.headless, launches,
                                             reload_url, feed_url).events
          /\ wpc' = AfterFromCookies(FromCookies(wpc.cookie_file[1], wpc.headless, launches,
                                                 reload_url, feed_url).ret)
          /\ exit_code' =
                IF AfterFromCookies(FromCookies(wpc.cookie_file[1], wpc.headless, launches,
                                                reload_url, feed_url).ret).at = "manual"
                THEN Null
                ELSE Some(IF FromCookies(wpc.cookie_file[1], wpc.headless, launches,
                                         reload_url, feed_url).ret = "raised" THEN 1 ELSE 0)
    /\ UNCHANGED <<extractor_vars, args>>

\* A variant that launches the manual login with the headless value passed.
ManualLoginAsPassed ==
    /\ wpc.at = "manual"
    /\ \E logged_in \in BOOLEAN :
          /\ events' = events
                \o <<Event("launch_browser", Visibility(wpc.headless), <<>>),
                     Event("goto", "https://www.linkedin.com/login", UrlLogin),
                     Event("wait_for_manual_login", "", <<>>)>>
                \o (IF logged_in THEN <<Event("save_session", "create_session", <<>>)>>
                    ELSE <<Event("raised", "wait_for_manual_login", <<>>)>>)
          /\ exit_code' = Some(IF logged_in THEN 0 ELSE 1)
    /\ wpc' = At("done", FALSE, Null)
    /\ UNCHANGED <<extractor_vars, args>>

\* create_session, lines 137-165: the manual login.  `logged_in` says whether
\* wait_for_manual_login returns or raises.
ManualLogin ==
    /\ wpc.at = "manual"
    /\ \E logged_in \in BOOLEAN :
          /\ events' = events
                \o <<Event("launch_browser",
                           Visibility(IF wpc.headless THEN FALSE ELSE wpc.headless), <<>>),
                     Event("goto", "https://www.linkedin.com/login", UrlLogin),
                     Event("wait_for_manual_login", "", <<>>)>>
                \o (IF logged_in THEN <<Event("save_session", "create_session", <<>>)>>
                    ELSE <<Event("raised", "wait_for_manual_login", <<>>)>>)
          /\ exit_code' = Some(IF logged_in THEN 0 ELSE 1)
    /\ wpc' = At("done", FALSE, Null)
    /\ UNCHANGED <<extractor_vars, args>>

NextWrapper ==
    \/ Main
    \/ CreateSession
    \/ CreateSessionFromCookies
    \/ ManualLogin

SpecWrapper == InitWrapper /\ [][NextWrapper]_vars

\* ---------------------------------------------------------------------------
\* Properties of whole runs (Spec)
\* ---------------------------------------------------------------------------

RECURSIVE ExtractedCookies(_)
\* The cookies the extractors returned, in store-processing order.
ExtractedCookies(i) ==
    IF i > Len(extractions) THEN <<>>
    ELSE extractions[i].out.ret.cookies \o ExtractedCookies(i + 1)

\* C1: a successful run's artifact holds at most one cookie per (name, domain)
\* pair; each retained cookie is the first one with its pair in
\* store-processing order, and every extracted pair is represented.
C1_FirstOccurrenceKept ==
    (pc = "done" /\ result = "output_file") =>
        /\ \A i, j \in 1..Len(artifact.cookies) :
              Key(artifact.cookies[i]) = Key(artifact.cookies[j]) => i = j
        /\ \A i \in 1..Len(artifact.cookies) :
              \E j \in 1..Len(ExtractedCookies(1)) :
                  /\ ExtractedCookies(1)[j] = artifact.cookies[i]
                  /\ \A m \in 1..(j - 1) :
                        Key(ExtractedCookies(1)[m]) # Key(artifact.cookies[i])
        /\ \A j \in 1..Len(ExtractedCookies(1)) :
              \E i \in 1..Len(artifact.cookies) :
                  Key(artifact.cookies[i]) = Key(ExtractedCookies(1)[j])

\* A successful run in which two stores gave different cookies with one pair.
C1_Witness ==
    /\ pc = "done"
    /\ result = "output_file"
    /\ \E a, b \in 1..Len(extractions) :
          /\ a < b
          /\ \E i \in 1..Len(extractions[a].out.ret.cookies) :
             \E j \in 1..Len(extractions[b].out.ret.cookies) :
                /\ Key(extractions[a].out.ret.cookies[i]) = Key(extractions[b].out.ret.cookies[j])
                /\ extractions[a].out.ret.cookies[i] # extractions[b].out.ret.cookies[j]
                /\ extractions[a].out.ret.cookies[i] \in
                      {artifact.cookies[n] : n \in 1..Len(artifact.cookies)}

\* The deduplicated result of a finished run has cookies, all named in names.
OnlyNamed(names) ==
    /\ pc = "done"
    /\ unique_cookies # <<>>
    /\ \A i \in 1..Len(unique_cookies) : unique_cookies[i].name \in names

\* C2 as stated: a result holding only lang and bscookie cookies gets a false
\* authentication verdict.
C2_LangAndBscookieNotAuth == OnlyNamed({"lang", "bscookie"}) => ~found_auth_cookies

\* C2: a result holding none of li_at, JSESSIONID, bcookie and bscookie (here:
\* only lang cookies) gets a false authentication verdict; one holding any of
\* the four gets a true one.
C2_VerdictByFourNames ==
    /\ OnlyNamed({"lang"}) => ~found_auth_cookies
    /\ (pc = "done" /\ \E i \in 1..Len(unique_cookies) :
            unique_cookies[i].name \in {"li_at", "JSESSIONID", "bcookie", "bscookie"})
         => found_auth_cookies

\* A finished run whose result holds only lang cookies.
C2_Witness == OnlyNamed({"lang"}) /\ ~found_auth_cookies

\* The store at ref gives at least one cookie to the extractor its path selects.
Yields(ref) ==
    Extend(<<>>, RunExtractor(ExtractorFor(CookieFilePath(platform, home, ref.fam,
                                                          StoreAt(ref).profile)),
                              StoreAt(ref)).ret) # <<>>

\* C3 as stated: an auto-detecting run ends with "no cookies found" only when
\* no candidate store of any family yields LinkedIn cookies.
C3_AutoDetectTriesEveryFamily ==
    (pc = "done" /\ browser = "auto" /\ result = "None" /\ all_cookies = <<>>) =>
        \A fam \in Families : \A i \in 1..Len(stores[fam]) : ~Yields(Ref(fam, i))

\* The run has no candidate store to read.
NoCandidates ==
    IF browser \in Families THEN Candidates(browser, stores) = <<>>
    ELSE \A fam \in Families : Candidates(fam, stores) = <<>>

\* C7: with zero candidate stores the run ends at once with the absent result,
\* having invoked no extractor and left the artifact absent.
C7_NoCandidatesNoWork ==
    (pc # "start" /\ NoCandidates) =>
        /\ pc = "done"
        /\ result = "None"
        /\ extractions = <<>>
        /\ all_cookies = <<>>
        /\ artifact.state = "absent"

\* An auto-detecting run and a Chrome run that found no candidate store.
C7_Witness ==
    /\ pc = "done"
    /\ NoCandidates
    /\ result = "None"
    /\ \/ browser = "auto" /\ consulted = <<"firefox", "chrome", "edge">>
       \/ browser = "chrome" /\ stores["firefox"] # <<>>

\* C8 as stated: every cookie an extractor returns, and so every cookie value
\* that reaches the artifact, carries a text value; rows with undecodable
\* byte values are dropped by both extractors.
C8_ReturnedValuesAreText ==
    /\ \A e \in 1..Len(extractions) :
          \A i \in 1..Len(extractions[e].out.ret.cookies) :
              extractions[e].out.ret.cookies[i].value.t = "str"
    /\ (pc = "done" /\ all_cookies # <<>> /\ result = "None") =>
          artifact.state # "partial" \/ artifact.cookies = unique_cookies

\* The extractor selected for the store at ref cannot read it.
Unreadable(extractor, store) ==
    \/ ~ConnectOk(store)
    \/ store.kind = "corrupt"
    \/ \A q \in 1..3 :
          Execute(store, IF extractor = "firefox" THEN FirefoxQueries[q]
                         ELSE ChromeQueries[q]).st = "OperationalError"

\* The next store to process is one its extractor cannot read.
NextStoreUnreadable ==
    /\ pc = "extract"
    /\ k <= Len(cookie_files)
    /\ Unreadable(ExtractorFor(CookieFilePath(platform, home, cookie_files[k].fam,
                                              StoreAt(cookie_files[k]).profile)),
                  StoreAt(cookie_files[k]))

ProbeFails(store, is_firefox) ==
    \/ ~ConnectOk(store)
    \/ store.kind = "corrupt"
    \/ IF is_firefox
       THEN /\ Execute(store, "probe_baseDomain").st = "OperationalError"
            /\ Execute(store, "probe_hostLike").st = "OperationalError"
       ELSE Execute(store, "probe_chLike").st = "OperationalError"

\* C10: no probe raises or warns; a probe of a store that cannot be opened or
\* queried answers false; and every candidate of the family the run settled
\* on is probed, whatever the earlier probes met.
C10_ProberNeverFails ==
    /\ \A i \in 1..Len(probes) :
          /\ ~probes[i].out.raised
          /\ ~probes[i].out.warned
          /\ ProbeFails(StoreAt(probes[i].ref), probes[i].is_firefox) => ~probes[i].out.ret
    /\ (pc # "start" /\ consulted # <<>>) =>
          /\ result # "raised" \/ extractions # <<>>
          /\ Len(probes) = Len(Candidates(consulted[Len(consulted)], stores))
          /\ \A i \in 1..Len(probes) :
                probes[i].ref = Candidates(consulted[Len(consulted)], stores)[i]

\* A probe that failed was followed by a probe that confirmed its store.
C10_Witness ==
    \E i, j \in 1..Len(probes) :
        /\ i < j
        /\ ProbeFails(StoreAt(probes[i].ref), probes[i].is_firefox)
        /\ ~probes[i].out.ret
        /\ probes[j].out.ret
        /\ cookie_files[1] = probes[j].ref

RECURSIVE AfterCalls(_, _, _, _)
\* The store at ref after the calls[i..] that were made on it.
AfterCalls(store, calls, ref, i) ==
    IF i > Len(calls) THEN store
    ELSE AfterCalls(IF calls[i].ref = ref THEN ApplyAll(store, calls[i].out.ran, 1)
                    ELSE store, calls, ref, i + 1)

HandleLeft(call) == call.out.opened /\ ~call.out.closed

\* C12 as stated: every prober call and every extractor call that opened a
\* store handle closed it before returning, whatever its exit path.
C12_EveryHandleClosed ==
    /\ \A i \in 1..Len(probes) : ~HandleLeft(probes[i])
    /\ \A i \in 1..Len(extractions) : ~HandleLeft(extractions[i])

\* C13 as stated: no store is opened while a handle opened earlier in the run
\* has not been closed, across the probing and the extraction phase.
C13_OneHandleAtATime ==
    /\ \A i, j \in 1..Len(probes) :
          (i < j /\ probes[j].out.opened) => ~HandleLeft(probes[i])
    /\ \A i \in 1..Len(probes) : \A j \in 1..Len(extractions) :
          extractions[j].out.opened => ~HandleLeft(probes[i])
    /\ \A i, j \in 1..Len(extractions) :
          (i < j /\ extractions[j].out.opened) => ~HandleLeft(extractions[i])

\* C14: a finished run returns the output path, and the process exits with
\* code 0, exactly when at least one cookie was recovered and the artifact was
\* written in full; otherwise it returns None and the process exits with 1.
C14_SuccessIffPersisted ==
    pc = "done" =>
        /\ result \in {"output_file", "None"}
        /\ result = "output_file" <=>
              /\ all_cookies # <<>>
              /\ artifact.state = "written"
              /\ artifact.cookies = unique_cookies
              /\ artifact.cookies # <<>>
        /\ ExitCode(result) = 0 <=> result = "output_file"
        /\ ExitCode(result) = 1 <=> result = "None"

\* A run that recovered cookies but could not open its destination.
C14_Witness ==
    /\ pc = "done"
    /\ all_cookies # <<>>
    /\ artifact.state = "absent"
    /\ result = "None"
    /\ ExitCode(result) = 1

\* The host is linkedin.com or one of its subdomains, with or without the
\* leading dot.
TargetHost(host) ==
    host \in {LinkedInCom, DotLinkedInCom} \/ EndsWith(host, DotLinkedInCom)

\* C19 as stated: every cookie of the artifact belongs to linkedin.com or a
\* subdomain of it, and the prober confirms only stores holding such a row.
C19_OnlyTargetDomain ==
    /\ \A i \in 1..Len(artifact.cookies) : TargetHost(artifact.cookies[i].domain)
    /\ \A i \in 1..Len(probes) :
          probes[i].out.ret =>
              \E r \in 1..Len(StoreAt(probes[i].ref).rows) :
                  TargetHost(StoreAt(probes[i].ref).rows[r].host)

RECURSIVE ResultsInOrder(_, _)
\* The cookies of the stores files[i..], each store read from the inputs by
\* the extractor its path selects, in list order.
ResultsInOrder(files, i) ==
    IF i > Len(files) THEN <<>>
    ELSE RunExtractor(ExtractorFor(CookieFilePath(platform, home, files[i].fam,
                                                  StoreAt(files[i]).profile)),
                      StoreAt(files[i])).ret.cookies
             \o ResultsInOrder(files, i + 1)

RECURSIVE FirstOccurrences(_, _)
\* The cookies[i..] that no earlier cookie of the list shares a key with.
FirstOccurrences(cookies, i) ==
    IF i > Len(cookies) THEN <<>>
    ELSE (IF \E m \in 1..(i - 1) : Key(cookies[m]) = Key(cookies[i]) THEN <<>>
          ELSE <<cookies[i]>>) \o FirstOccurrences(cookies, i + 1)

AboutToSaveWithoutAuth ==
    /\ pc = "extract"
    /\ k > Len(cookie_files)
    /\ all_cookies # <<>>
    /\ ~FoundAuth(all_cookies)
    /\ \A i \in 1..Len(all_cookies) : JsonSerializable(all_cookies[i])

\* C22: a false verdict is advisory.  A run that recovered cookies, none of
\* them an authentication cookie, goes on to write the whole deduplicated
\* list and to return the output path, and a run that returned the path with
\* a false verdict has written exactly the deduplicated list.
C22_FalseVerdictIsAdvisory ==
    /\ AboutToSaveWithoutAuth =>
          ENABLED (/\ Save
                   /\ result' = "output_file"
                   /\ ~found_auth_cookies'
                   /\ artifact' = [state |-> "written",
                                   cookies |-> RemoveDuplicates(all_cookies, {}, 1)])
    /\ (pc = "done" /\ result = "None" /\ all_cookies # <<>> /\ ~found_auth_cookies) =>
          \/ artifact.state = "absent"
          \/ artifact = [state |-> "partial", cookies |-> DumpedPrefix(unique_cookies, 1)]
    /\ (pc = "done" /\ result = "output_file" /\ ~found_auth_cookies) =>
          artifact = [state |-> "written", cookies |-> unique_cookies]

\* A run whose only cookies are lang cookies returned the output path.
C22_Witness ==
    /\ pc = "done"
    /\ result = "output_file"
    /\ ~found_auth_cookies
    /\ unique_cookies # <<>>
    /\ artifact.cookies = unique_cookies

\* C27: every extraction used the extractor of the family its store was
\* discovered under.
C27_ExtractorOfTheFamily ==
    \A e \in 1..Len(extractions) :
        extractions[e].extractor
          = (IF extractions[e].ref.fam = "firefox" THEN "firefox" ELSE "chrome_edge")

\* C28: the list a locator returned holds every store once, so no store is
\* probed twice or extracted twice in a run.
C28_EveryStoreListedOnce ==
    /\ \A i, j \in 1..Len(cookie_files) : cookie_files[i] = cookie_files[j] => i = j
    /\ \A i, j \in 1..Len(extractions) : extractions[i].ref = extractions[j].ref => i = j

\* C29: a run that returned None left the output file as it was before the
\* run, which is absent.
C29_FailureLeavesNoArtifact ==
    (pc = "done" /\ result = "None") => artifact = [state |-> "absent", cookies |-> <<>>]

\* ---------------------------------------------------------------------------
\* Properties of locator calls (SpecRank)
\* ---------------------------------------------------------------------------

\* An independent probe of the store at ref confirms it.
Confirmed(ref) == has_linkedin_cookies(StoreAt(ref), ref.fam = "firefox").ret

\* C4: the ranked list is a permutation of the enumerated candidates, with
\* every confirmed store before every unconfirmed one and each group in
\* enumeration order.
C4_RankingStablePartition ==
    pc # "start" =>
        /\ Len(cookie_files) = Len(Candidates(browser, stores))
        /\ \A ref \in {Candidates(browser, stores)[i] :
                           i \in 1..Len(Candidates(browser, stores))} :
              Cardinality({i \in 1..Len(cookie_files) : cookie_files[i] = ref})
                = Cardinality({i \in 1..Len(Candidates(browser, stores)) :
                                   Candidates(browser, stores)[i] = ref})
        /\ \A i, j \in 1..Len(cookie_files) :
              (i < j /\ Confirmed(cookie_files[j])) => Confirmed(cookie_files[i])
        /\ SelectSeq(cookie_files, LAMBDA r : Confirmed(r))
             = SelectSeq(Candidates(browser, stores), LAMBDA r : Confirmed(r))
        /\ SelectSeq(cookie_files, LAMBDA r : ~Confirmed(r))
             = SelectSeq(Candidates(browser, stores), LAMBDA r : ~Confirmed(r))

\* A ranking that moved two distinct confirmed stores ahead of an unconfirmed
\* one enumerated before them.
C4_Witness ==
    /\ pc # "start"
    /\ cookie_files # Candidates(browser, stores)
    /\ \E a, b, c \in 1..Len(Candidates(browser, stores)) :
          /\ a < b /\ b < c
          /\ ~Confirmed(Candidates(browser, stores)[a])
          /\ Confirmed(Candidates(browser, stores)[b])
          /\ Confirmed(Candidates(browser, stores)[c])
          /\ Candidates(browser, stores)[b] # Candidates(browser, stores)[c]
          /\ cookie_files[1] = Candidates(browser, stores)[b]
          /\ cookie_files[2] = Candidates(browser, stores)[c]

\* ---------------------------------------------------------------------------
\* Properties of row conversions (SpecRow)
\* ---------------------------------------------------------------------------

C16_NormalizationIdempotent ==
    /\ \A e \in 2..Len(extractions) :
          extractions[e].out.ret.cookies[1].domain
             = extractions[e - 1].out.ret.cookies[1].domain
    /\ \A e \in 1..Len(extractions) :
          /\ FirefoxDomain(FirefoxDomain(extractions[e].row.host))
               = FirefoxDomain(extractions[e].row.host)
          /\ ChromeDomain(ChromeDomain(extractions[e].row.host))
               = ChromeDomain(extractions[e].row.host)

\* A host was given its dot by the first conversion and kept as it was by the
\* Firefox expression in the second.
C16_Witness ==
    /\ Len(extractions) = 2
    /\ extractions[2].extractor = "firefox"
    /\ extractions[1].row.host = <<"a", ".", "a">>
    /\ extractions[2].row.host = <<".", "a", ".", "a">>
    /\ extractions[2].out.ret.cookies[1].domain = <<".", "a", ".", "a">>

\* C17: a null secure flag becomes true and a null httpOnly flag false; a
\* supplied flag becomes its truth value, so a secure flag of 0 stays false.
C17_FlagDefaults ==
    \A e \in 1..Len(extractions) :
        /\ extractions[e].out.ret.cookies[1].secure
             = (IF extractions[e].row.isSecure = Null THEN TRUE
                ELSE extractions[e].row.isSecure[1] # 0)
        /\ extractions[e].out.ret.cookies[1].httpOnly
             = (IF extractions[e].row.isHttpOnly = Null THEN FALSE
                ELSE extractions[e].row.isHttpOnly[1] # 0)

\* Both extractors kept an explicit secure flag of 0 false and defaulted a
\* null httpOnly flag to false.
C17_Witness ==
    /\ Len(extractions) = 2
    /\ extractions[1].extractor # extractions[2].extractor
    /\ \A e \in 1..2 :
          /\ extractions[e].row.isSecure = Some(0)
          /\ extractions[e].row.isHttpOnly = Null
          /\ ~extractions[e].out.ret.cookies[1].secure
          /\ ~extractions[e].out.ret.cookies[1].httpOnly

\* ---------------------------------------------------------------------------
\* Properties of runs over one-row stores (SpecOneRow)
\* ---------------------------------------------------------------------------

\* A successful run over a modern-schema Firefox store with one li_at row.
ScenarioARan ==
    /\ pc = "done"
    /\ result = "output_file"
    /\ StoreAt(TheStore).kind = "moz_base"

\* C18 as stated: such a run's output is one cookie with domain
\* ".linkedin.com", path "/" and secure = true, whatever the row's cells.
C18_ScenarioAAnyRow ==
    ScenarioARan =>
        /\ Len(artifact.cookies) = 1
        /\ artifact.cookies[1].domain = DotLinkedInCom
        /\ artifact.cookies[1].path = "/"
        /\ artifact.cookies[1].secure

\* C18: such a run's output is one li_at cookie with domain ".linkedin.com";
\* its path is "/" when the row's path is null, empty or "/", and its secure
\* flag is true exactly when the row's isSecure is null or non-zero.
C18_ScenarioA ==
    ScenarioARan =>
        /\ Len(artifact.cookies) = 1
        /\ artifact.cookies[1].name = "li_at"
        /\ artifact.cookies[1].domain = DotLinkedInCom
        /\ StoreAt(TheStore).rows[1].path \in {Null, Some(""), Some("/")}
              => artifact.cookies[1].path = "/"
        /\ artifact.cookies[1].secure <=> StoreAt(TheStore).rows[1].isSecure # Some(0)

\* The row left path and isSecure null and the output cookie has the defaults.
C18_Witness ==
    /\ ScenarioARan
    /\ StoreAt(TheStore).rows[1].path = Null
    /\ StoreAt(TheStore).rows[1].isSecure = Null
    /\ Len(artifact.cookies) = 1
    /\ artifact.cookies[1].path = "/"
    /\ artifact.cookies[1].secure

\* ---------------------------------------------------------------------------
\* Properties of single extractor calls (SpecStore)
\* ---------------------------------------------------------------------------

\* The statements of the extractor, in the order the code lists them.
QueriesOf(extractor) == IF extractor = "firefox" THEN FirefoxQueries ELSE ChromeQueries

HostRows(store) ==
    IF Execute(store, "ff_hostList").rows # <<>> THEN Execute(store, "ff_hostList").rows
    ELSE Execute(store, "ff_hostLike").rows

\* C6: when the baseDomain statement fails on a missing column and a
\* host-based statement returns rows, the Firefox extractor returns the
\* cookies of those rows, without a warning.
C6_MissingColumnFallsBack ==
    \A e \in 1..Len(extractions) :
        (/\ extractions[e].extractor = "firefox"
         /\ Execute(StoreAt(extractions[e].ref), "ff_baseDomain").st = "OperationalError"
         /\ HostRows(StoreAt(extractions[e].ref)) # <<>>)
          => /\ extractions[e].out.ret
                  = List(FirefoxCookies(HostRows(StoreAt(extractions[e].ref)), 1))
             /\ Len(extractions[e].out.ret.cookies)
                  = Len(HostRows(StoreAt(extractions[e].ref)))
             /\ ~extractions[e].out.warned
             /\ ~extractions[e].out.raised

\* The Firefox extractor read a store without baseDomain through its third
\* statement.
C6_Witness ==
    \E e \in 1..Len(extractions) :
        /\ extractions[e].extractor = "firefox"
        /\ extractions[e].out.ran = FirefoxQueries
        /\ Execute(StoreAt(extractions[e].ref), "ff_baseDomain").st = "OperationalError"
        /\ extractions[e].out.ret.cookies # <<>>


\* The has_linkedin_cookies calls made with is_firefox=True on a store that
\* could be opened.
FirefoxProbes == {i \in 1..Len(probes) : probes[i].is_firefox /\ probes[i].out.opened}

\* C26: a Firefox probe runs the baseDomain count first; it runs the
\* host-substring count exactly when the baseDomain statement raised
\* OperationalError (no such column or table); and when the baseDomain
\* statement counted zero rows it answers False having run nothing else.
C26_FallbackOnlyOnMissingColumn ==
    \A i \in FirefoxProbes :
        /\ probes[i].out.ran # <<>>
        /\ probes[i].out.ran[1] = "probe_baseDomain"
        /\ Len(probes[i].out.ran) <= 2
        /\ (\E j \in 1..Len(probes[i].out.ran) : probes[i].out.ran[j] = "probe_hostLike")
              <=> Execute(StoreAt(probes[i].ref), "probe_baseDomain").st = "OperationalError"
        /\ (/\ Execute(StoreAt(probes[i].ref), "probe_baseDomain").st = "ok"
            /\ Execute(StoreAt(probes[i].ref), "probe_baseDomain").rows = <<>>) =>
              /\ ~probes[i].out.ret
              /\ probes[i].out.ran = <<"probe_baseDomain">>

\* A store with the baseDomain column whose only rows are of notlinkedin.com:
\* the host-substring count would be positive, the probe answered False.
C26_Witness ==
    \E i \in FirefoxProbes :
        /\ StoreAt(probes[i].ref).kind = "moz_base"
        /\ Execute(StoreAt(probes[i].ref), "probe_hostLike").rows # <<>>
        /\ ~probes[i].out.ret
        /\ probes[i].out.ran = <<"probe_baseDomain">>

\* ---------------------------------------------------------------------------
\* Properties of the wrapper (SpecWrapper)

\* The found_auth checks create_session_from_cookies has made.
VerdictEvents == {i \in 1..Len(events) : events[i].op = "found_auth"}

EventsOf(op, arg) == {i \in 1..Len(events) : events[i].op = op /\ events[i].arg = arg}

SessionSaves == {i \in 1..Len(events) : events[i].op = "save_session"}

ManualLogins == {i \in 1..Len(events) : events[i].op = "wait_for_manual_login"}

\* C23: in a run of main() in session mode with --cookies, whenever a manual
\* login was started, create_session_from_cookies had been called before it.
C23_CookiesTriedBeforeManualLogin ==
    (/\ events # <<>>
     /\ events[1] = Event("call", "create_session", <<>>)
     /\ args.cookies # Null) =>
        \A i \in ManualLogins :
           \E j \in EventsOf("call", "create_session_from_cookies") : j < i

\* The URL checks create_session_from_cookies has made that found a login
\* or authwall page.
FailedUrlChecks ==
    {i \in 1..Len(events) :
        /\ events[i].op \in {"reload", "goto"}
        /\ events[i].arg # "https://www.linkedin.com/login"
        /\ \/ Contains(Lower(events[i].url), <<"l", "o", "g", "i", "n">>)
           \/ Contains(Lower(events[i].url), <<"a", "u", "t", "h", "w", "a", "l", "l">>)}

\* C24: create_session_from_cookies saves the session, and returns True, only
\* right after it injected the cookies, reloaded and found neither the URL
\* after the reload nor the URL after going to /feed to contain login or
\* authwall; a missing or unreadable cookie file and a failed URL check each
\* end it with False and without a saved session.
C24_SavedOnlyAfterVerification ==
    /\ \A i \in EventsOf("save_session", "create_session_from_cookies") :
          /\ i > 4
          /\ events[i - 3].op = "add_cookies"
          /\ events[i - 2].op = "reload"
          /\ events[i - 1] = Event("goto", "https://www.linkedin.com/feed", events[i - 1].url)
          /\ FailedUrlChecks = {}
          /\ events[i + 1] = Event("return", "True", <<>>)
    /\ \A i \in EventsOf("return", "True") :
          events[i - 1] = Event("save_session", "create_session_from_cookies", <<>>)
    /\ \A i \in EventsOf("return", "False") :
          \A j \in SessionSaves : j > i
    /\ \A i \in FailedUrlChecks
              \cup EventsOf("print_error", "Cookie file not found")
              \cup EventsOf("print_error", "Error loading cookies") :
          events[i + 1] = Event("return", "False", <<>>)
    /\ (args.cookies # Null /\ artifact.state # "written") =>
          EventsOf("return", "True") = {}
    /\ (args.cookies = Some(MissingJson)) => EventsOf("return", "True") = {}

\* A call of create_session_from_cookies saved the session and returned True.
C24_Witness ==
    /\ EventsOf("return", "True") # {}
    /\ EventsOf("save_session", "create_session_from_cookies") # {}

MainErrors == {"--url", "--urls", "--keywords", "Could not import mock scraper",
               "Mock mode does not support session creation"}

\* C30: a run of main() never ends with nothing done: it ran an operation
\* or it printed an error message and exits with code 1.
C30_NoModeEndsSilently ==
    wpc.at = "done" =>
       /\ events # <<>>
       /\ (events[1].op = "print_error" /\ events[1].arg \in MainErrors) =>
             exit_code = Some(1)

====
